---- MODULE Spec2Model ----
(***************************************************************************)
(* Delivery routing and retry engine of notify_api (service.py,            *)
(* repository.py, routes.py, models.py).                                   *)
(*                                                                         *)
(* The store is the committed content of the three tables.  Every request  *)
(* runs in its own ORM session; a session keeps the rows it loaded and     *)
(* works on them until its next commit expires them.  A handler that       *)
(* touches the store several times is one action per store access, so      *)
(* that the accesses of two sessions interleave the way two requests do.   *)
(***************************************************************************)
EXTENDS Integers, Sequences, FiniteSets, TLC

\* ---- bounds of the model ------------------------------------------------
MaxNotifications == 2
MaxChannels == 2
MaxLogs == 2
MaxWaves == 3
MaxTime == 2

\* ---- program constants --------------------------------------------------
MAX_ATTEMPTS == 3
BASE_DELAY_SECONDS == 1

VARIABLES
    scope,              \* what the callers of this run may do (fixed by Init)
    now,                \* datetime.utcnow()
    notifications,      \* table notifications: the ids present
    delivery_channels,  \* table delivery_channels: id -> row
    delivery_log,       \* table delivery_log: id -> row
    session,            \* per session: the handler it runs and that handler's locals
    result              \* what the handler that returned in the last step returned

vars == <<scope, now, notifications, delivery_channels, delivery_log, session, result>>

store == <<notifications, delivery_channels, delivery_log>>

Sessions == {"s1", "s2"}

DeliveryStatus == {"pending", "sent", "failed", "retried"}
ChannelType == {"email", "webhook"}
ErrorMessages == {"Connection refused"}

\* Python's None, for a timestamp, for a string, for a row.
NoTime == -1
NoText == "None"
None == [id |-> 0]

SeqToSet(s) == {s[i] : i \in DOMAIN s}

\* ---- rows ---------------------------------------------------------------

DeliveryChannel(id, channel_type) ==
    [id |-> id, channel_type |-> channel_type, is_active |-> TRUE]

DeliveryLog(id, n, c, status, attempt_count, max_attempts) ==
    [id |-> id, notification_id |-> n, channel_id |-> c, status |-> status,
     attempt_count |-> attempt_count, max_attempts |-> max_attempts,
     last_attempt_at |-> NoTime, next_retry_at |-> NoTime,
     error_message |-> NoText]

\* session.commit(): the UPDATE carries the columns whose value differs from
\* the one the session loaded; the other columns keep what the table holds.
Flush(row, loaded, new) ==
    [row EXCEPT
        !.status = IF new.status = loaded.status THEN @ ELSE new.status,
        !.attempt_count =
            IF new.attempt_count = loaded.attempt_count THEN @ ELSE new.attempt_count,
        !.last_attempt_at =
            IF new.last_attempt_at = loaded.last_attempt_at THEN @ ELSE new.last_attempt_at,
        !.next_retry_at =
            IF new.next_retry_at = loaded.next_retry_at THEN @ ELSE new.next_retry_at,
        !.error_message =
            IF new.error_message = loaded.error_message THEN @ ELSE new.error_message]

\* ---- repository queries -------------------------------------------------

\* A variant that takes every id for a notification.
get_notification_by_id_unchecked(n) == [id |-> n]

get_notification_by_id(n) == IF n \in notifications THEN [id |-> n] ELSE None

get_delivery_log_by_id(id) ==
    IF id \in DOMAIN delivery_log THEN delivery_log[id] ELSE None

\* A variant that forgets the is_active filter.
list_active_channels_unfiltered == DOMAIN delivery_channels

list_active_channels ==
    {c \in DOMAIN delivery_channels : delivery_channels[c].is_active}

list_all_channels == DOMAIN delivery_channels

\* Variants of the selection: one without the status filter, one that takes
\* the retried rows along with the failed ones.
get_pending_retries_any_status ==
    {i \in DOMAIN delivery_log :
        delivery_log[i].attempt_count < delivery_log[i].max_attempts}

get_pending_retries_with_retried ==
    {i \in DOMAIN delivery_log :
        /\ delivery_log[i].status \in {"failed", "retried"}
        /\ delivery_log[i].attempt_count < delivery_log[i].max_attempts}

\* A variant that takes "pending retries" for the rows of status pending.
get_pending_retries_of_status_pending ==
    {i \in DOMAIN delivery_log :
        /\ delivery_log[i].status = "pending"
        /\ delivery_log[i].attempt_count < delivery_log[i].max_attempts}

get_pending_retries ==
    {i \in DOMAIN delivery_log :
        /\ delivery_log[i].status = "failed"
        /\ delivery_log[i].attempt_count < delivery_log[i].max_attempts}

\* A variant that forgets the notification_id filter.
get_delivery_logs_of_any_notification(rows, n) == rows

\* A variant that leaves the delivered attempts out.
get_delivery_logs_still_open(rows, n) ==
    SelectSeq(rows, LAMBDA row : row.notification_id = n /\ row.status # "sent")

RECURSIVE get_delivery_logs_by_notification(_, _)
get_delivery_logs_by_notification(rows, n) ==
    IF rows = <<>> THEN <<>>
    ELSE IF Head(rows).notification_id = n
         THEN <<Head(rows)>> \o get_delivery_logs_by_notification(Tail(rows), n)
         ELSE get_delivery_logs_by_notification(Tail(rows), n)

\* ---- sessions -----------------------------------------------------------

\* A session that runs no handler.
IdleSession ==
    [pc |-> "idle", caller |-> "none", before |-> <<>>, notification_id |-> 0,
     channels |-> {}, logs |-> <<>>, log_id |-> 0, log |-> None, pending |-> {},
     visited |-> {}, retried |-> <<>>]

\* No handler returned in the last step.
NoResult == [op |-> "none"]

\* The clock and the tables as a handler finds them when it starts (a history
\* variable; scopes that do not ask for it leave it empty).
Before ==
    IF scope.history
    THEN [at |-> now, notifications |-> notifications,
          delivery_channels |-> delivery_channels, delivery_log |-> delivery_log]
    ELSE <<>>

\* A session that starts a handler.
Started == [IdleSession EXCEPT !.before = Before]

Idle(p) == session[p].pc = "idle"

At(p, label) == p \in scope.sessions /\ session[p].pc = label

\* The handler of p goes on with the locals changed as in s.
Goto(p, s) ==
    /\ session' = [session EXCEPT ![p] = s]
    /\ result' = NoResult

\* The handler of p returns r.
Return(p, r) ==
    /\ session' = [session EXCEPT ![p] = IdleSession]
    /\ result' = r

InitStore ==
    /\ now = 0
    /\ notifications = {}
    /\ delivery_channels = <<>>
    /\ delivery_log = <<>>
    /\ session = [p \in Sessions |-> IdleSession]
    /\ result = NoResult

\* ---- the clock ----------------------------------------------------------

Tick ==
    /\ now < scope.max_time
    /\ now' = now + 1
    /\ result' = NoResult
    /\ UNCHANGED <<scope, store, session>>

\* ---- record keeping (outside the core) ----------------------------------

create_notification(p) ==
    /\ At(p, "idle")
    /\ Cardinality(notifications) < scope.max_notifications
    /\ notifications' = notifications \cup {Cardinality(notifications) + 1}
    /\ Return(p, [op |-> "create_notification"])
    /\ UNCHANGED <<scope, now, delivery_channels, delivery_log>>

create_channel(p, channel_type) ==
    /\ At(p, "idle")
    /\ Len(delivery_channels) < scope.max_channels
    /\ delivery_channels' =
           Append(delivery_channels,
                  DeliveryChannel(Len(delivery_channels) + 1, channel_type))
    /\ Return(p, [op |-> "create_channel"])
    /\ UNCHANGED <<scope, now, notifications, delivery_log>>

deactivate_channel(p, c) ==
    /\ At(p, "idle")
    /\ c \in DOMAIN delivery_channels
    /\ delivery_channels' = [delivery_channels EXCEPT ![c].is_active = FALSE]
    /\ Return(p, [op |-> "deactivate_channel"])
    /\ UNCHANGED <<scope, now, notifications, delivery_log>>

\* update_channel(session, channel_id, is_active=...): the way to activate a
\* channel again.
update_channel(p, c, is_active) ==
    /\ At(p, "idle")
    /\ c \in DOMAIN delivery_channels
    /\ delivery_channels' = [delivery_channels EXCEPT ![c].is_active = is_active]
    /\ Return(p, [op |-> "update_channel"])
    /\ UNCHANGED <<scope, now, notifications, delivery_log>>

\* ---- DeliveryService.deliver --------------------------------------------

\* Rows that the deliver calls in flight are still going to insert.
RECURSIVE Reserved(_)
Reserved(S) ==
    IF S = {} THEN 0
    ELSE LET q == CHOOSE x \in S : TRUE
         IN (Cardinality(session[q].channels) - Len(session[q].logs))
            + Reserved(S \ {q})

\* status_code is 0 for a direct call of deliver_notification, and 202 or 404
\* for a call through the route.
DeliverResult(n, status_code, channels, before, created) ==
    [op |-> "deliver", notification_id |-> n, status_code |-> status_code,
     channels |-> channels, before |-> before, ret |-> created]

\* A variant of the loop that looks the active channels up at every turn.
Unvisited_live(s) ==
    {c \in list_active_channels :
        \A i \in DOMAIN s.logs : delivery_log[s.logs[i]].channel_id # c}

\* The channels of the snapshot that the loop has not visited yet.
Unvisited(s) ==
    {c \in s.channels : \A i \in DOMAIN s.logs : delivery_log[s.logs[i]].channel_id # c}

\* The loop of deliver over the channels in active; an empty loop returns at
\* once.
FanOut(p, n, by, active) ==
    /\ Len(delivery_log) + Reserved(Sessions) + Cardinality(active) <= scope.max_logs
    /\ IF active = {}
       THEN Return(p, DeliverResult(n, IF by = "trigger_delivery" THEN 202 ELSE 0,
                                    active, Before, <<>>))
       ELSE Goto(p, [Started EXCEPT !.pc = "create_delivery_log", !.caller = by,
                                    !.notification_id = n, !.channels = active])
    /\ UNCHANGED <<scope, now, store>>

\* A variant that fans out only for a notification without attempts.
DeliverBody_once(p, n, by) ==
    FanOut(p, n, by,
           IF \E i \in DOMAIN delivery_log : delivery_log[i].notification_id = n
           THEN {} ELSE list_active_channels)

\* channels = list_active_channels(session)
DeliverBody(p, n, by) == FanOut(p, n, by, list_active_channels)

deliver(p, n) ==
    /\ At(p, "idle")
    /\ DeliverBody(p, n, "deliver_notification")

trigger_delivery(p, n) ==
    /\ At(p, "idle")
    /\ IF get_notification_by_id(n) = None
       THEN /\ Return(p, DeliverResult(n, 404, {}, Before, <<>>))
            /\ UNCHANGED <<scope, now, store>>
       ELSE DeliverBody(p, n, "trigger_delivery")

\* One turn of the loop: create_delivery_log inserts and commits the row.
create_delivery_log(p) ==
    /\ At(p, "create_delivery_log")
    /\ LET s == session[p] IN
       \E c \in Unvisited(s) :
        LET id == Len(delivery_log) + 1
            created == Append(s.logs, id)
        IN
        /\ delivery_log' =
               Append(delivery_log,
                      DeliveryLog(id, s.notification_id, c, "pending", 0, MAX_ATTEMPTS))
        /\ IF Unvisited(s) = {c}
           THEN Return(p, DeliverResult(s.notification_id,
                                        IF s.caller = "trigger_delivery" THEN 202 ELSE 0,
                                        s.channels, s.before, created))
           ELSE Goto(p, [s EXCEPT !.logs = created])
    /\ UNCHANGED <<scope, now, notifications, delivery_channels>>

\* The result of a deliver call that its caller gave up.
AbandonResult(s) ==
    [op |-> "abandon", notification_id |-> s.notification_id,
     channels |-> s.channels, before |-> s.before, ret |-> s.logs]

\* A variant of the abandonment that compensates: it marks the attempts the
\* call created as failed.
abandon_compensating(p) ==
    /\ At(p, "create_delivery_log")
    /\ delivery_log' =
           [i \in DOMAIN delivery_log |->
               IF i \in SeqToSet(session[p].logs)
               THEN [delivery_log[i] EXCEPT !.status = "failed"]
               ELSE delivery_log[i]]
    /\ Return(p, AbandonResult(session[p]))
    /\ UNCHANGED <<scope, now, notifications, delivery_channels>>

\* The caller gives the deliver call up between two turns of the loop: the
\* session is rolled back and closed.  Every row was committed by
\* create_delivery_log as it was created, so the rollback finds nothing to
\* undo.
abandon(p) ==
    /\ At(p, "create_delivery_log")
    /\ Return(p, AbandonResult(session[p]))
    /\ UNCHANGED <<scope, now, store>>

\* ---- DeliveryService.retry_delivery -------------------------------------

\* A variant of the guard that lets one attempt too many through.
Exhausted_strict(row) == row.attempt_count > row.max_attempts

\* if log.attempt_count >= log.max_attempts: return None
Exhausted(row) == row.attempt_count >= row.max_attempts

\* A variant of the delay that doubles from the first retry on.
Backoff_from_zero(attempt_count) == BASE_DELAY_SECONDS * (2 ^ attempt_count)

\* delay = BASE_DELAY_SECONDS * (2 ** (log.attempt_count - 1))
Backoff(attempt_count) == BASE_DELAY_SECONDS * (2 ^ (attempt_count - 1))

\* A variant of the increment that leaves the timestamp alone.
Attempted_unstamped(log) == [log EXCEPT !.attempt_count = @ + 1]

\* A variant that starts the new attempt with no error recorded.
Attempted_clearing(log) ==
    [log EXCEPT !.attempt_count = @ + 1, !.last_attempt_at = now,
                !.error_message = NoText]

\* log.attempt_count += 1; log.last_attempt_at = datetime.utcnow()
Attempted(log) == [log EXCEPT !.attempt_count = @ + 1, !.last_attempt_at = now]

RetryResult(id, before, row) ==
    [op |-> "retry_delivery", log_id |-> id, before |-> before, ret |-> row]

SweepResult(pending, before, ids) ==
    [op |-> "process_pending_retries", pending |-> pending, before |-> before,
     ret |-> ids]

\* log = get_delivery_log_by_id(...) and the two early returns.
retry_delivery(p, id) ==
    /\ At(p, "idle")
    /\ LET row == get_delivery_log_by_id(id) IN
       IF row = None \/ Exhausted(row)
       THEN Return(p, RetryResult(id, Before, None))
       ELSE Goto(p, [Started EXCEPT !.pc = "increment_delivery_attempt",
                                    !.caller = "retry_delivery",
                                    !.log_id = id, !.log = row])
    /\ UNCHANGED <<scope, now, store>>

\* increment_delivery_attempt up to its commit: session.get finds the row the
\* session already holds, so the count written is the count held plus one.
increment_delivery_attempt(p) ==
    /\ At(p, "increment_delivery_attempt")
    /\ LET s == session[p]
           new == Attempted(s.log)
       IN
       /\ delivery_log' = [delivery_log EXCEPT ![s.log_id] = Flush(@, s.log, new)]
       /\ Goto(p, [s EXCEPT !.pc = "refresh_increment", !.log = None])
    /\ UNCHANGED <<scope, now, notifications, delivery_channels>>

\* session.refresh(log) at the end of increment_delivery_attempt.
refresh_increment(p) ==
    /\ At(p, "refresh_increment")
    /\ LET s == session[p] IN
       Goto(p, [s EXCEPT !.pc = "backoff", !.log = delivery_log[s.log_id]])
    /\ UNCHANGED <<scope, now, store>>

\* delay, next_retry_at, status = retried, commit.
backoff(p) ==
    /\ At(p, "backoff")
    /\ LET s == session[p]
           delay == Backoff(s.log.attempt_count)
           new == [s.log EXCEPT !.next_retry_at = now + delay, !.status = "retried"]
       IN
       /\ delivery_log' = [delivery_log EXCEPT ![s.log_id] = Flush(@, s.log, new)]
       /\ Goto(p, [s EXCEPT !.pc = "refresh", !.log = None])
    /\ UNCHANGED <<scope, now, notifications, delivery_channels>>

\* session.refresh(log); return log.  Inside process_pending_retries the
\* result is appended to retried and the loop goes on.
refresh(p) ==
    /\ At(p, "refresh")
    /\ LET s == session[p]
           row == delivery_log[s.log_id]
       IN
       IF s.caller = "retry_delivery"
       THEN Return(p, RetryResult(s.log_id, s.before, row))
       ELSE IF s.pending = s.visited
            THEN Return(p, SweepResult(s.pending, s.before, Append(s.retried, s.log_id)))
            ELSE Goto(p, [s EXCEPT !.pc = "process_pending_retries", !.log_id = 0,
                                   !.retried = Append(@, s.log_id)])
    /\ UNCHANGED <<scope, now, store>>

\* ---- DeliveryService.process_pending_retries ----------------------------

\* One turn of the loop of process_pending_retries, up to the early returns
\* of retry_delivery, on the row as the session holds it.
Visit(p, s, i, row) ==
    IF Exhausted(row)
    THEN IF s.pending = s.visited \cup {i}
         THEN Return(p, SweepResult(s.pending, s.before, s.retried))
         ELSE Goto(p, [s EXCEPT !.pc = "process_pending_retries",
                                !.visited = @ \cup {i}])
    ELSE Goto(p, [s EXCEPT !.pc = "increment_delivery_attempt", !.log_id = i,
                           !.log = row, !.visited = @ \cup {i}])

\* pending = get_pending_retries(session) and the first turn of the loop: the
\* rows of the query are held by the session, so retry_delivery's
\* session.get reads the first of them from the session, not from the table.
process_pending_retries(p) ==
    /\ At(p, "idle")
    /\ LET selected == get_pending_retries IN
       IF selected = {}
       THEN Return(p, SweepResult({}, Before, <<>>))
       ELSE \E i \in selected :
            Visit(p, [Started EXCEPT !.caller = "process_pending_retries",
                                     !.pending = selected],
                  i, delivery_log[i])
    /\ UNCHANGED <<scope, now, store>>

\* A later turn of the loop: the commit of the turn before expired the rows,
\* so log.id loads the row again and retry_delivery checks what it loaded.
next_pending(p) ==
    /\ At(p, "process_pending_retries")
    /\ LET s == session[p] IN
       \E i \in s.pending \ s.visited : Visit(p, s, i, delivery_log[i])
    /\ UNCHANGED <<scope, now, store>>

\* ---- the transport's report ---------------------------------------------

UpdateResult(id, row) ==
    [op |-> "update_delivery_log_status", log_id |-> id, before |-> Before, ret |-> row]

\* A variant that grants a failed attempt one more try.
Reported_extending(row, status, error_message) ==
    [row EXCEPT !.status = status,
                !.error_message = IF error_message # NoText THEN error_message ELSE @,
                !.max_attempts = IF status = "failed" THEN @ + 1 ELSE @]

\* A variant that stores the error message it is given, None included.
Reported_clearing(row, status, error_message) ==
    [row EXCEPT !.status = status, !.error_message = error_message]

\* log.status = status, and log.error_message = error_message if one is given.
Reported(row, status, error_message) ==
    [row EXCEPT !.status = status,
                !.error_message = IF error_message # NoText THEN error_message ELSE @]

update_delivery_log_status(p, id, status, error_message) ==
    /\ At(p, "idle")
    /\ IF get_delivery_log_by_id(id) = None
       THEN /\ Return(p, UpdateResult(id, None))
            /\ UNCHANGED store
       ELSE LET row == Reported(delivery_log[id], status, error_message)
            IN
            /\ delivery_log' = [delivery_log EXCEPT ![id] = row]
            /\ Return(p, UpdateResult(id, row))
            /\ UNCHANGED <<notifications, delivery_channels>>
    /\ UNCHANGED <<scope, now>>

\* ---- DeliveryService.get_status -----------------------------------------

\* A variant that counts an attempt under its first status only: it leaves
\* the retried attempts out of pending.
Tally_unretried(rows, statuses) ==
    Cardinality({i \in DOMAIN rows : rows[i].status \in statuses \ {"retried"}})

RECURSIVE Tally(_, _)
Tally(rows, statuses) ==
    IF rows = <<>> THEN 0
    ELSE (IF Head(rows).status \in statuses THEN 1 ELSE 0) + Tally(Tail(rows), statuses)

Delivery(row) ==
    [log_id |-> row.id,
     channel_id |-> row.channel_id,
     channel_type |-> IF row.channel_id \in DOMAIN delivery_channels
                      THEN delivery_channels[row.channel_id].channel_type
                      ELSE NoText,
     status |-> row.status,
     attempt_count |-> row.attempt_count,
     max_attempts |-> row.max_attempts]

Status(n) ==
    LET rows == get_delivery_logs_by_notification(delivery_log, n)
        deliveries == [i \in DOMAIN rows |-> Delivery(rows[i])]
    IN [notification_id |-> n,
        total_channels |-> Len(deliveries),
        delivered |-> Tally(rows, {"sent"}),
        failed |-> Tally(rows, {"failed"}),
        pending |-> Tally(rows, {"pending", "retried"}),
        deliveries |-> deliveries]

\* A variant that writes while it reads: it files the retried attempts of
\* the notification as pending.
get_status_filing(p, n) ==
    /\ At(p, "idle")
    /\ Return(p, [op |-> "get_status", notification_id |-> n,
                  ret |-> IF get_notification_by_id(n) = None THEN None ELSE Status(n)])
    /\ delivery_log' =
           [i \in DOMAIN delivery_log |->
               IF delivery_log[i].notification_id = n /\ delivery_log[i].status = "retried"
               THEN [delivery_log[i] EXCEPT !.status = "pending"]
               ELSE delivery_log[i]]
    /\ UNCHANGED <<scope, now, notifications, delivery_channels>>

get_status(p, n) ==
    /\ At(p, "idle")
    /\ Return(p, [op |-> "get_status", notification_id |-> n,
                  ret |-> IF get_notification_by_id(n) = None THEN None ELSE Status(n)])
    /\ UNCHANGED <<scope, now, store>>

\* ---- DeliveryService.list_channels ---------------------------------------

list_channels(p, active_only) ==
    /\ At(p, "idle")
    /\ Return(p, [op |-> "list_channels", active_only |-> active_only,
                  ret |-> IF active_only THEN list_active_channels
                          ELSE list_all_channels])
    /\ UNCHANGED <<scope, now, store>>

\* ---- the specifications -------------------------------------------------

Records ==
    \/ \E p \in Sessions : create_notification(p)
    \/ \E p \in Sessions, t \in scope.types : create_channel(p, t)
    \/ \E p \in Sessions, c \in 1..scope.max_channels : deactivate_channel(p, c)

Router ==
    \/ \E p \in Sessions, n \in 1..scope.max_notifications : deliver(p, n)
    \/ \E p \in Sessions, n \in 1..scope.max_notifications : trigger_delivery(p, n)
    \/ \E p \in Sessions : create_delivery_log(p)

RetryOne ==
    \/ \E p \in Sessions, id \in 1..scope.max_logs : retry_delivery(p, id)
    \/ \E p \in Sessions : increment_delivery_attempt(p)
    \/ \E p \in Sessions : refresh_increment(p)
    \/ \E p \in Sessions : backoff(p)
    \/ \E p \in Sessions : refresh(p)

SweepFirst == \E p \in Sessions : process_pending_retries(p)

Sweep == SweepFirst \/ \E p \in Sessions : next_pending(p)

Transport ==
    \E p \in Sessions, id \in 1..scope.max_logs, s \in scope.statuses,
       e \in scope.errors \cup {NoText} :
        update_delivery_log_status(p, id, s, e)

Aggregator ==
    \E p \in Sessions, n \in 1..scope.max_notifications : get_status(p, n)

\* Every handler, with the clock standing still.
Step == Records \/ Router \/ RetryOne \/ Sweep \/ Transport \/ Aggregator

Next == Tick \/ Step

\* One session, the clock standing still: the handlers run one after the
\* other, over one notification, two channels and two attempts.
InitSeq ==
    /\ scope = [sessions |-> {"s1"}, max_time |-> 0, max_notifications |-> 1,
                max_channels |-> MaxChannels, max_logs |-> MaxLogs,
                types |-> {"email"}, statuses |-> {"sent", "failed"}, errors |-> {},
                history |-> TRUE]
    /\ InitStore

SpecSeq == InitSeq /\ [][Step]_vars

\* One session and one attempt, with the clock running, every status and an
\* error message in the transport's reports.
InitOne ==
    /\ scope = [sessions |-> {"s1"}, max_time |-> MaxTime, max_notifications |-> 1,
                max_channels |-> 1, max_logs |-> 1, types |-> ChannelType,
                statuses |-> DeliveryStatus, errors |-> ErrorMessages,
                history |-> TRUE]
    /\ InitStore

\* With one attempt the loop of process_pending_retries has one turn.
NextOne == Tick \/ Records \/ Router \/ RetryOne \/ SweepFirst \/ Transport \/ Aggregator

SpecOne == InitOne /\ [][NextOne]_vars

\* Two sessions whose store accesses interleave, over one attempt.
InitRace ==
    /\ scope = [sessions |-> Sessions, max_time |-> 0, max_notifications |-> 1,
                max_channels |-> 1, max_logs |-> 1, types |-> {"email"},
                statuses |-> {"sent", "failed"}, errors |-> {}, history |-> FALSE]
    /\ InitStore

StepOne == Records \/ Router \/ RetryOne \/ SweepFirst \/ Transport \/ Aggregator

SpecRace == InitRace /\ [][StepOne]_vars

\* One session, several notifications and delivery waves, no retry: the
\* transport alone moves the attempts between the statuses.
InitWaves ==
    /\ scope = [sessions |-> {"s1"}, max_time |-> 0,
                max_notifications |-> MaxNotifications, max_channels |-> 1,
                max_logs |-> MaxWaves, types |-> {"email"},
                statuses |-> {"sent", "failed", "retried"}, errors |-> {},
                history |-> TRUE]
    /\ InitStore

StepWaves == Records \/ Router \/ Transport \/ Aggregator

SpecWaves == InitWaves /\ [][StepWaves]_vars

Listing == \E p \in Sessions, active_only \in BOOLEAN : list_channels(p, active_only)

\* One session, one notification, two channels and three attempts: deliver
\* calls before and after a channel is deactivated, the listings and the
\* summary, no retry and no report of the transport.
InitFan ==
    /\ scope = [sessions |-> {"s1"}, max_time |-> 0, max_notifications |-> 1,
                max_channels |-> MaxChannels, max_logs |-> MaxWaves,
                types |-> ChannelType, statuses |-> {}, errors |-> {},
                history |-> TRUE]
    /\ InitStore

StepFan == Records \/ Router \/ Aggregator \/ Listing

SpecFan == InitFan /\ [][StepFan]_vars

\* Two sessions over two attempts, each with a part of its own: s1 sets the
\* records up, reports failures and runs process_pending_retries, s2 calls
\* retry_delivery.
InitOverlap ==
    /\ scope = [sessions |-> Sessions, max_time |-> 0, max_notifications |-> 1,
                max_channels |-> 1, max_logs |-> MaxLogs,
                types |-> {"email"}, statuses |-> {"failed"}, errors |-> {},
                history |-> FALSE]
    /\ InitStore

StepOverlap ==
    \/ create_notification("s1")
    \/ \E t \in scope.types : create_channel("s1", t)
    \/ \E n \in 1..scope.max_notifications : deliver("s1", n)
    \/ create_delivery_log("s1")
    \/ \E id \in 1..scope.max_logs, st \in scope.statuses :
        update_delivery_log_status("s1", id, st, NoText)
    \/ process_pending_retries("s1")
    \/ next_pending("s1")
    \/ \E id \in 1..scope.max_logs : retry_delivery("s2", id)
    \/ \E p \in Sessions : increment_delivery_attempt(p)
    \/ \E p \in Sessions : refresh_increment(p)
    \/ \E p \in Sessions : backoff(p)
    \/ \E p \in Sessions : refresh(p)

SpecOverlap == InitOverlap /\ [][StepOverlap]_vars

\* The transport reports the failure of attempt id, once per attempt of
\* sending: when the attempt is pending or was retried.
ReportFailed(id) ==
    /\ id \in DOMAIN delivery_log
    /\ delivery_log[id].status \in {"pending", "retried"}
    /\ update_delivery_log_status("s2", id, "failed", NoText)

\* A step of the periodic sweep.
SweepStep ==
    \/ process_pending_retries("s2")
    \/ next_pending("s2")
    \/ increment_delivery_attempt("s2")
    \/ refresh_increment("s2")
    \/ backoff("s2")
    \/ refresh("s2")

\* Two sessions: s1 serves the requests that set the records up and deliver,
\* s2 is the worker that takes the transport's failure reports and runs the
\* sweep.  Every attempt of sending fails.
InitSweep ==
    /\ scope = [sessions |-> Sessions, max_time |-> 0, max_notifications |-> 1,
                max_channels |-> 1, max_logs |-> MaxLogs,
                types |-> {"email"}, statuses |-> {"failed"}, errors |-> {},
                history |-> FALSE]
    /\ InitStore

StepSweep ==
    \/ create_notification("s1")
    \/ \E t \in scope.types : create_channel("s1", t)
    \/ \E n \in 1..scope.max_notifications : deliver("s1", n)
    \/ create_delivery_log("s1")
    \/ \E id \in 1..scope.max_logs : ReportFailed(id)
    \/ SweepStep

\* The worker keeps running: a report the transport has to make is made, and
\* a sweep that can make a step makes it.
SpecSweep ==
    /\ InitSweep
    /\ [][StepSweep]_vars
    /\ \A id \in 1..MaxLogs : WF_vars(ReportFailed(id))
    /\ WF_vars(SweepStep)

Abandon == \E p \in Sessions : abandon(p)

\* Two sessions that register, deactivate and activate channels and deliver one
\* notification concurrently, each call with room for a full wave; a deliver
\* call may be abandoned.
InitDeliver ==
    /\ scope = [sessions |-> Sessions, max_time |-> 0, max_notifications |-> 1,
                max_channels |-> MaxChannels, max_logs |-> 2 * MaxChannels,
                types |-> {"email"}, statuses |-> {}, errors |-> {},
                history |-> TRUE]
    /\ InitStore

Registry ==
    \E p \in Sessions, c \in 1..scope.max_channels, is_active \in BOOLEAN :
        update_channel(p, c, is_active)

StepDeliver == Records \/ Registry \/ Router \/ Abandon

SpecDeliver == InitDeliver /\ [][StepDeliver]_vars

\* The scopes in which every handler runs.
Init == InitSeq \/ InitOne \/ InitRace

Spec == Init /\ [][Next]_vars

\* ---- properties: the attempt counter ------------------------------------

\* The retry_delivery call that returned in the last step, on an attempt that
\* was in the table when the call started.
Retried(id) ==
    /\ result.op = "retry_delivery"
    /\ result.log_id = id
    /\ id \in DOMAIN result.before.delivery_log

\* The tables are as the handler that returned in the last step found them.
StoreAsBefore ==
    /\ notifications = result.before.notifications
    /\ delivery_channels = result.before.delivery_channels
    /\ delivery_log = result.before.delivery_log

\* C1: in every reachable state, whatever deliver, retry_delivery,
\* process_pending_retries and the status updates did, and however the calls
\* of two sessions interleaved, every attempt has
\* 0 <= attempt_count <= max_attempts.
C1_AttemptCountBounded ==
    \A i \in DOMAIN delivery_log :
        /\ 0 <= delivery_log[i].attempt_count
        /\ delivery_log[i].attempt_count <= delivery_log[i].max_attempts

\* An attempt that reached max_attempts, on which a further retry_delivery
\* has just returned.
C1_Witness ==
    \E i \in DOMAIN delivery_log :
        /\ delivery_log[i].attempt_count = delivery_log[i].max_attempts
        /\ result.op = "retry_delivery"
        /\ result.log_id = i

\* C2: of the retry_delivery calls that run concurrently on one attempt and
\* found attempt_count = max_attempts - 1, at most one succeeds in
\* incrementing: a call commits its increment only while the stored
\* attempt_count is still the one it read.
C2_OneWinner ==
    [][\A p \in Sessions :
        (/\ session[p].pc = "increment_delivery_attempt"
         /\ session'[p].pc = "refresh_increment"
         /\ session[p].log.attempt_count = session[p].log.max_attempts - 1)
        => delivery_log[session[p].log_id].attempt_count
               = session[p].log.attempt_count]_vars

\* ---- properties: deliver ------------------------------------------------

\* The deliver call that returned in the last step, made for a notification
\* that exists.
Delivered(n) ==
    /\ result.op = "deliver"
    /\ result.notification_id = n
    /\ result.status_code # 404
    /\ n \in result.before.notifications

\* C3: deliver for an existing notification n, with A the set of the active
\* channels, creates exactly Cardinality(A) attempts, one per channel of A
\* and none for an inactive channel, each with notification_id = n, status
\* pending, attempt_count 0 and max_attempts 3; the list it returns is
\* exactly the set of the attempts created.
C3_DeliverFanOut ==
    \A n \in 1..MaxNotifications :
        Delivered(n) =>
            LET A == {c \in DOMAIN result.before.delivery_channels :
                        result.before.delivery_channels[c].is_active}
                created == DOMAIN delivery_log \ DOMAIN result.before.delivery_log
            IN
            /\ Len(result.ret) = Cardinality(A)
            /\ Cardinality(created) = Cardinality(A)
            /\ SeqToSet(result.ret) = created
            /\ {delivery_log[i].channel_id : i \in created} = A
            /\ \A i \in created :
                /\ delivery_log[i].id = i
                /\ delivery_log[i].notification_id = n
                /\ delivery_log[i].status = "pending"
                /\ delivery_log[i].attempt_count = 0
                /\ delivery_log[i].max_attempts = 3
            /\ \A i \in DOMAIN result.before.delivery_log :
                delivery_log[i] = result.before.delivery_log[i]

\* A deliver call that returned one attempt while a second channel, an
\* inactive one, is registered.
C3_Witness ==
    /\ Delivered(1)
    /\ Len(result.ret) = 1
    /\ \E c \in DOMAIN delivery_channels :
        /\ ~delivery_channels[c].is_active
        /\ \A i \in SeqToSet(result.ret) : delivery_log[i].channel_id # c

\* ---- properties: retry_delivery -----------------------------------------

\* C4: retry_delivery on an attempt whose attempt_count equals max_attempts
\* returns no attempt (Exhausted) and leaves every field of that attempt,
\* and every other record, unchanged.
C4_ExhaustedNoOp ==
    \A id \in 1..MaxLogs :
        (Retried(id)
            /\ result.before.delivery_log[id].attempt_count
                   = result.before.delivery_log[id].max_attempts)
        => (result.ret = None /\ StoreAsBefore)

\* A refused retry_delivery on an exhausted attempt that carries timestamps
\* and an error message.
C4_Witness ==
    /\ Retried(1)
    /\ result.ret = None
    /\ delivery_log[1].attempt_count = delivery_log[1].max_attempts
    /\ delivery_log[1].last_attempt_at # NoTime
    /\ delivery_log[1].error_message # NoText

\* C5: retry_delivery on an attempt with attempt_count = c < max_attempts
\* succeeds: it returns the attempt as stored, with attempt_count = c + 1,
\* last_attempt_at the time of the call, next_retry_at set and status
\* retried.
C5_RetrySucceeds ==
    \A id \in 1..MaxLogs :
        (Retried(id)
            /\ result.before.delivery_log[id].attempt_count
                   < result.before.delivery_log[id].max_attempts)
        => /\ result.ret # None
           /\ result.ret = delivery_log[id]
           /\ result.ret.attempt_count
                  = result.before.delivery_log[id].attempt_count + 1
           /\ result.before.at <= result.ret.last_attempt_at
           /\ result.ret.last_attempt_at <= now
           /\ result.ret.next_retry_at # NoTime
           /\ result.ret.status = "retried"

\* A second successful retry_delivery, made after the clock moved.
C5_Witness ==
    /\ Retried(1)
    /\ result.ret # None
    /\ result.ret.attempt_count = 2
    /\ result.ret.last_attempt_at > 0

\* C6: the successful retry that brings attempt_count to k schedules
\* next_retry_at BASE_DELAY_SECONDS * 2^(k-1) after the clock reading of the
\* call, k being the count after the increment: 1, 2 and 4 seconds for the
\* first, second and third retry.
C6_BackoffSchedule ==
    [][\A p \in Sessions :
        (session[p].pc = "backoff" /\ session'[p].pc = "refresh")
        => LET k == delivery_log'[session[p].log_id].attempt_count
               delay == delivery_log'[session[p].log_id].next_retry_at - now
           IN /\ k \in 1..3
              /\ delay = BASE_DELAY_SECONDS * (2 ^ (k - 1))
              /\ delay = <<1, 2, 4>>[k]]_vars

\* The third retry has just scheduled the attempt four seconds ahead.
C6_Witness ==
    \E p \in Sessions :
        /\ session[p].pc = "refresh"
        /\ delivery_log[session[p].log_id].attempt_count = 3
        /\ delivery_log[session[p].log_id].next_retry_at = now + 4

\* C7: an attempt starts with attempt_count 0 and only a successful
\* retry_delivery changes the count, by one; a retry_delivery call succeeds
\* exactly when the count it finds is below max_attempts, whatever the
\* status was set to between the calls.  So exactly the first max_attempts
\* calls succeed and every later one is refused: with max_attempts = 3 the
\* fourth call is the first refused.
C7_RetryBudget ==
    /\ [](\A id \in 1..MaxLogs :
            Retried(id) =>
                LET c == result.before.delivery_log[id].attempt_count
                    m == result.before.delivery_log[id].max_attempts
                IN IF c < m
                   THEN result.ret # None /\ result.ret.attempt_count = c + 1
                   ELSE result.ret = None /\ delivery_log[id].attempt_count = m)
    /\ [][\A i \in DOMAIN delivery_log' :
            IF i \in DOMAIN delivery_log
            THEN \/ delivery_log'[i].attempt_count = delivery_log[i].attempt_count
                 \/ /\ delivery_log'[i].attempt_count
                           = delivery_log[i].attempt_count + 1
                    /\ \E p \in Sessions :
                        /\ session[p].pc = "increment_delivery_attempt"
                        /\ session[p].log_id = i
                        /\ session'[p].pc = "refresh_increment"
            ELSE delivery_log'[i].attempt_count = 0]_vars

\* The fourth call: the attempt made three retries, was reported failed
\* again, and the next retry_delivery is refused.
C7_Witness ==
    /\ Retried(1)
    /\ result.ret = None
    /\ result.before.delivery_log[1].attempt_count = 3
    /\ result.before.delivery_log[1].status = "failed"

\* ---- properties: process_pending_retries --------------------------------

\* The process_pending_retries call that returned in the last step.
Swept == result.op = "process_pending_retries"

\* The attempts that are failed and below max_attempts in the table rows.
Eligible(rows) ==
    {i \in DOMAIN rows :
        rows[i].status = "failed" /\ rows[i].attempt_count < rows[i].max_attempts}

\* C8: process_pending_retries, run with no other operation in between,
\* retries exactly the attempts that were failed and below max_attempts when
\* it started: each of them ends retried with attempt_count one higher and
\* is in the returned list; every other attempt is unchanged and is not
\* returned.
C8_SweepSelectsEligible ==
    Swept =>
        LET rows == result.before.delivery_log IN
        /\ DOMAIN delivery_log = DOMAIN rows
        /\ SeqToSet(result.ret) = Eligible(rows)
        /\ Len(result.ret) = Cardinality(Eligible(rows))
        /\ \A i \in Eligible(rows) :
            /\ delivery_log[i].status = "retried"
            /\ delivery_log[i].attempt_count = rows[i].attempt_count + 1
        /\ \A i \in DOMAIN rows \ Eligible(rows) : delivery_log[i] = rows[i]
        /\ notifications = result.before.notifications
        /\ delivery_channels = result.before.delivery_channels

\* A sweep that retried one attempt and passed over a failed one that had
\* used up its attempts.
C8_Witness ==
    /\ Swept
    /\ Len(result.ret) = 1
    /\ \E i \in DOMAIN delivery_log :
        /\ delivery_log[i].status = "failed"
        /\ delivery_log[i].attempt_count = delivery_log[i].max_attempts

\* C9: a process_pending_retries call that starts right after another one
\* returned selects nothing: it returns at once with an empty list and
\* changes no record, so no attempt is incremented twice.
C9_SecondSweepIdle ==
    [][(Swept /\ \E p \in Sessions : process_pending_retries(p))
        => (/\ result'.op = "process_pending_retries"
            /\ result'.ret = <<>>
            /\ UNCHANGED store)]_vars

\* A sweep returned nothing although the table holds an attempt that a
\* retry left below max_attempts.
C9_Witness ==
    /\ Swept
    /\ result.ret = <<>>
    /\ result.pending = {}
    /\ \E i \in DOMAIN delivery_log :
        /\ delivery_log[i].status = "retried"
        /\ delivery_log[i].attempt_count \in 1..2

\* ---- properties: get_status ---------------------------------------------

\* The get_status call that returned in the last step, for a notification
\* that exists.
Summarized(n) ==
    /\ result.op = "get_status"
    /\ result.notification_id = n
    /\ n \in notifications

\* The attempts of notification n whose status is one of statuses.
AttemptsOf(n, statuses) ==
    {i \in DOMAIN delivery_log :
        delivery_log[i].notification_id = n /\ delivery_log[i].status \in statuses}

\* C10: get_status for an existing notification n reports total_channels =
\* the number of attempts of n, delivered = those sent, failed = those
\* failed, pending = those pending or retried, over the attempts of every
\* deliver call for n and of no other notification.
C10_SummaryCounts ==
    \A n \in 1..MaxNotifications :
        Summarized(n) =>
            /\ result.ret # None
            /\ result.ret.notification_id = n
            /\ result.ret.total_channels = Cardinality(AttemptsOf(n, DeliveryStatus))
            /\ result.ret.delivered = Cardinality(AttemptsOf(n, {"sent"}))
            /\ result.ret.failed = Cardinality(AttemptsOf(n, {"failed"}))
            /\ result.ret.pending
                   = Cardinality(AttemptsOf(n, {"pending", "retried"}))

\* A summary over two deliver calls for the notification, one attempt of
\* them retried, while another notification has an attempt of its own.
C10_Witness ==
    \E n \in notifications, other \in notifications :
        /\ other # n
        /\ Summarized(n)
        /\ result.ret.total_channels = 2
        /\ AttemptsOf(n, {"retried"}) # {}
        /\ AttemptsOf(other, DeliveryStatus) # {}

\* ---- properties: missing records and empty fan-out ----------------------

\* C11: deliver for a notification id that does not exist fails with
\* NotFound (the 404 of the route) and creates no attempt, whatever the
\* active channels are.
C11_DeliverMissingNotFound ==
    (result.op = "deliver" /\ result.notification_id \notin result.before.notifications)
    => (result.status_code = 404 /\ result.ret = <<>> /\ StoreAsBefore)

\* The attempts of notification n among rows.
AttemptsIn(rows, n) == {i \in DOMAIN rows : rows[i].notification_id = n}

\* C12: deliver does not deduplicate.  Every deliver call for a notification
\* n made with the active channels A adds Cardinality(A) attempts under ids
\* that no earlier attempt has, to the attempts n already had; no step
\* removes an attempt or gives it to another notification; so the attempts
\* of n after k calls number |A1| + ... + |Ak|, and the summary reports that
\* number as total_channels.
C12_WavesAccumulate ==
    /\ [](\A n \in 1..MaxNotifications :
            Delivered(n) =>
                LET A == {c \in DOMAIN result.before.delivery_channels :
                            result.before.delivery_channels[c].is_active}
                    old == AttemptsIn(result.before.delivery_log, n)
                IN /\ SeqToSet(result.ret) \cap DOMAIN result.before.delivery_log = {}
                   /\ Cardinality(SeqToSet(result.ret)) = Cardinality(A)
                   /\ AttemptsIn(delivery_log, n) = old \cup SeqToSet(result.ret)
                   /\ Cardinality(AttemptsIn(delivery_log, n))
                          = Cardinality(old) + Cardinality(A))
    /\ [](\A n \in 1..MaxNotifications :
            Summarized(n) =>
                result.ret.total_channels = Cardinality(AttemptsIn(delivery_log, n)))
    /\ [][\A i \in DOMAIN delivery_log :
            /\ i \in DOMAIN delivery_log'
            /\ delivery_log'[i].id = delivery_log[i].id
            /\ delivery_log'[i].notification_id = delivery_log[i].notification_id]_vars

\* Channels A and B, a deliver call, B deactivated, a second deliver call:
\* the summary reports 2 + 1 = 3.
C12_Witness ==
    /\ Summarized(1)
    /\ result.ret.total_channels = 3
    /\ Len(delivery_channels) = 2
    /\ \E c \in DOMAIN delivery_channels : ~delivery_channels[c].is_active
    /\ Cardinality({i \in DOMAIN delivery_log : delivery_log[i].channel_id = 1}) = 2
    /\ Cardinality({i \in DOMAIN delivery_log : delivery_log[i].channel_id = 2}) = 1

\* C13: get_status for a notification id that does not exist returns no
\* summary (NotFound), also when the table holds attempts that carry the id.
C13_SummaryMissingNotFound ==
    \A n \in 1..MaxNotifications :
        (result.op = "get_status" /\ result.notification_id = n /\ n \notin notifications)
        => result.ret = None

\* No summary for an id without notification, although two attempts carry
\* the id.
C13_Witness ==
    /\ result.op = "get_status"
    /\ result.notification_id \notin notifications
    /\ result.ret = None
    /\ Cardinality(AttemptsIn(delivery_log, result.notification_id)) = 2

\* C14: get_status for an existing notification without attempts succeeds
\* with total_channels = delivered = failed = pending = 0 and an empty detail
\* list.
C14_SummaryOfNothing ==
    \A n \in 1..MaxNotifications :
        (Summarized(n) /\ AttemptsIn(delivery_log, n) = {})
        => /\ result.ret # None
           /\ result.ret.total_channels = 0
           /\ result.ret.delivered = 0
           /\ result.ret.failed = 0
           /\ result.ret.pending = 0
           /\ result.ret.deliveries = <<>>

\* The empty summary of a notification, taken while another notification
\* has attempts.
C14_Witness ==
    \E n \in notifications :
        /\ Summarized(n)
        /\ result.ret.deliveries = <<>>
        /\ AttemptsIn(delivery_log, n) = {}
        /\ delivery_log # <<>>

\* C15: deliver for an existing notification while no channel is active
\* succeeds with an empty list and leaves the tables as they were.
C15_DeliverToNobody ==
    \A n \in 1..MaxNotifications :
        (Delivered(n)
            /\ \A c \in DOMAIN result.before.delivery_channels :
                   ~result.before.delivery_channels[c].is_active)
        => (result.ret = <<>> /\ StoreAsBefore)

\* A deliver call that returned nothing with both channels registered and
\* deactivated.
C15_Witness ==
    /\ Delivered(1)
    /\ result.ret = <<>>
    /\ Len(delivery_channels) = 2
    /\ \A c \in DOMAIN delivery_channels : ~delivery_channels[c].is_active

\* ---- properties: reads, terminal states, outcomes -----------------------

\* C16: get_status is a pure read.  It leaves every notification, channel
\* and attempt as it was, and a get_status call made right after another
\* one for the same notification returns the same summary.
C16_SummaryPureRead ==
    [][\A p \in Sessions, n \in 1..MaxNotifications :
        get_status(p, n)
        => /\ UNCHANGED store
           /\ (result.op = "get_status" /\ result.notification_id = n)
                  => result'.ret = result.ret]_vars

\* A summary that counts a sent, a failed and a retried attempt.
C16_Witness ==
    /\ Summarized(1)
    /\ result.ret.delivered = 1
    /\ result.ret.failed = 1
    /\ result.ret.pending = 1
    /\ AttemptsOf(1, {"retried"}) # {}

\* A step of retry_delivery, alone or inside process_pending_retries, that
\* writes to the table.
RetryWrites ==
    \E p \in Sessions :
        /\ session[p].pc \in {"increment_delivery_attempt", "backoff"}
        /\ session'[p].pc # session[p].pc

\* C17: sent is terminal.  Once an attempt has status sent, no step of
\* retry_delivery or process_pending_retries changes its status,
\* attempt_count, last_attempt_at or next_retry_at.
C17_SentTerminal ==
    [][\A i \in DOMAIN delivery_log :
        (delivery_log[i].status = "sent" /\ RetryWrites)
        => /\ delivery_log'[i].status = "sent"
           /\ delivery_log'[i].attempt_count = delivery_log[i].attempt_count
           /\ delivery_log'[i].last_attempt_at = delivery_log[i].last_attempt_at
           /\ delivery_log'[i].next_retry_at = delivery_log[i].next_retry_at]_vars

\* C18: retry_delivery on an id that names no attempt changes nothing and
\* returns NotFound, an outcome that a call on an exhausted attempt (see C4)
\* does not return.
C18_NotFoundDistinct ==
    \A id \in 1..MaxLogs :
        (result.op = "retry_delivery" /\ result.log_id = id)
        => LET NotFound == get_delivery_log_by_id(0) IN
           IF id \notin DOMAIN result.before.delivery_log
           THEN result.ret = NotFound /\ StoreAsBefore
           ELSE result.ret # NotFound

\* C19: list_channels with active_only returns exactly the channels whose
\* is_active flag is set when it is called, and without active_only every
\* channel; a channel is active when it is created and inactive after
\* deactivate_channel.
C19_ChannelListings ==
    /\ [](result.op = "list_channels" =>
            result.ret = IF result.active_only
                         THEN {c \in DOMAIN delivery_channels :
                                 delivery_channels[c].is_active = TRUE}
                         ELSE 1..Len(delivery_channels))
    /\ [][\A c \in DOMAIN delivery_channels' :
            /\ c \notin DOMAIN delivery_channels => delivery_channels'[c].is_active
            /\ (\E p \in Sessions : deactivate_channel(p, c))
                   => ~delivery_channels'[c].is_active]_vars

\* The active listing returned the second channel alone, the first one
\* being deactivated.
C19_Witness ==
    /\ result.op = "list_channels"
    /\ result.active_only
    /\ result.ret = {2}
    /\ Len(delivery_channels) = 2
    /\ ~delivery_channels[1].is_active

\* C20: the effect of a successful retry_delivery on the stored attempt is
\* atomic.  No summary shows an attempt that has an attempt counted but is
\* still pending, the status it had before its first retry (the transport
\* of this scope reports sent and failed only, and a retry leaves retried).
C20_RetryAtomic ==
    (result.op = "get_status" /\ result.ret # None)
    => \A k \in DOMAIN result.ret.deliveries :
        result.ret.deliveries[k].attempt_count >= 1
            => result.ret.deliveries[k].status # "pending"

\* ---- properties: a sweep that overlaps with retry_delivery ---------------

\* The step in which session p commits the increment of a retry.
CommitsIncrement(p) ==
    /\ session[p].pc = "increment_delivery_attempt"
    /\ session'[p].pc = "refresh_increment"

\* C21: when process_pending_retries and a retry_delivery call overlap on
\* one failed attempt, at most one of them retries it.  A call that read the
\* attempt as failed commits its increment only while the stored
\* attempt_count is the one it read, so that the count rises by one for that
\* failure and one schedule is written.
C21_OneRetryPerFailure ==
    [][\A p \in Sessions :
        (CommitsIncrement(p) /\ session[p].log.status = "failed")
        => delivery_log[session[p].log_id].attempt_count
               = session[p].log.attempt_count]_vars

\* C22: an attempt that process_pending_retries selected and that a
\* concurrent retry_delivery brought to max_attempts before the sweep came
\* to retry it is skipped: the sweep does not write to it.
C22_SweepSkipsExhausted ==
    [][\A p \in Sessions :
        (CommitsIncrement(p) /\ session[p].caller = "process_pending_retries")
        => ~Exhausted(delivery_log[session[p].log_id])]_vars

\* ---- properties: the status machine and the schedule --------------------

\* The step in which session p commits the schedule and the status of a
\* retry.
CommitsSchedule(p) ==
    /\ session[p].pc = "backoff"
    /\ session'[p].pc = "refresh"

\* C23: an attempt enters retried only from failed.  A retry, alone or in a
\* sweep, writes the status retried only on an attempt whose status is
\* failed, not on a pending, sent or retried one.
C23_RetriedOnlyFromFailed ==
    [][\A p \in Sessions :
        CommitsSchedule(p) => delivery_log[session[p].log_id].status = "failed"]_vars

\* C24: no step, of the engine or of the status update, gives the status
\* pending to an attempt that has another status.
C24_NoWayBackToPending ==
    [][\A i \in DOMAIN delivery_log :
        delivery_log[i].status # "pending" => delivery_log'[i].status # "pending"]_vars

\* C28: no attempt is retried before its next_retry_at.  A retry commits its
\* increment on an attempt that has a next_retry_at only when the clock has
\* reached it.
C28_NotBeforeNextRetryAt ==
    [][\A p \in Sessions :
        CommitsIncrement(p)
        => \/ delivery_log[session[p].log_id].next_retry_at = NoTime
           \/ now >= delivery_log[session[p].log_id].next_retry_at]_vars

\* C29: a successful retry leaves next_retry_at = last_attempt_at + delay
\* exactly, with delay = BASE_DELAY_SECONDS * 2^(attempt_count - 1), also
\* when the clock advances during the call.
C29_ScheduleFromLastAttempt ==
    [][\A p \in Sessions :
        CommitsSchedule(p)
        => LET row == delivery_log'[session[p].log_id] IN
           row.next_retry_at
               = row.last_attempt_at + BASE_DELAY_SECONDS * (2 ^ (row.attempt_count - 1))]_vars

\* C30: the attempt_count of an attempt never decreases, and it changes only
\* where a retry commits its increment, by one; no other step changes it.
C30_CountMonotonic ==
    [][\A i \in DOMAIN delivery_log :
        /\ delivery_log'[i].attempt_count >= delivery_log[i].attempt_count
        /\ delivery_log'[i].attempt_count # delivery_log[i].attempt_count
               => /\ delivery_log'[i].attempt_count = delivery_log[i].attempt_count + 1
                  /\ \E p \in Sessions :
                        CommitsIncrement(p) /\ session[p].log_id = i]_vars

\* ---- properties: concurrent and abandoned deliver calls -----------------

\* The channels that are active among rows.
ActiveIn(rows) == {c \in DOMAIN rows : rows[c].is_active}

\* The deliver call that returned in the last step ran its loop (the route
\* did not refuse it).
Fanned == result.op = "deliver" /\ result.status_code # 404

\* The channels of the attempts in the list ids.
ChannelsOf(ids) == {delivery_log[ids[k]].channel_id : k \in DOMAIN ids}

\* C25: the active channels a deliver call uses are a snapshot taken once
\* when the call starts.  The call creates one attempt per channel that was
\* active then, whatever channels other sessions create or deactivate while
\* it runs.
C25_DeliverSnapshot ==
    Fanned =>
        /\ result.channels = ActiveIn(result.before.delivery_channels)
        /\ ChannelsOf(result.ret) = ActiveIn(result.before.delivery_channels)
        /\ Len(result.ret) = Cardinality(ActiveIn(result.before.delivery_channels))

\* A deliver call that started with channel 1 active and channel 2 not,
\* and returned its one attempt after another session activated channel 2
\* and deactivated channel 1.
C25_Witness ==
    /\ Fanned
    /\ Len(result.before.delivery_channels) = 2
    /\ result.before.delivery_channels[1].is_active
    /\ ~result.before.delivery_channels[2].is_active
    /\ ~delivery_channels[1].is_active
    /\ delivery_channels[2].is_active
    /\ ChannelsOf(result.ret) = {1}

\* C26: two deliver calls for one notification that run concurrently each
\* create their own complete set of attempts, one per channel of their own
\* snapshot, under ids that are all distinct; no attempt is shared with the
\* other call, and no step loses or overwrites an attempt.
C26_ConcurrentDeliver ==
    /\ [](Fanned =>
            /\ Cardinality(SeqToSet(result.ret)) = Len(result.ret)
            /\ Len(result.ret) = Cardinality(ActiveIn(result.before.delivery_channels))
            /\ \A k \in DOMAIN result.ret :
                /\ result.ret[k] \in DOMAIN delivery_log
                /\ delivery_log[result.ret[k]].id = result.ret[k]
                /\ delivery_log[result.ret[k]].notification_id = result.notification_id
                /\ delivery_log[result.ret[k]].channel_id
                       \in ActiveIn(result.before.delivery_channels)
                /\ delivery_log[result.ret[k]].status = "pending"
                /\ delivery_log[result.ret[k]].attempt_count = 0
                /\ \A j \in DOMAIN result.ret :
                    delivery_log[result.ret[j]].channel_id
                        = delivery_log[result.ret[k]].channel_id => j = k
            /\ \A q \in Sessions :
                SeqToSet(session[q].logs) \cap SeqToSet(result.ret) = {})
    /\ [][\A i \in DOMAIN delivery_log :
            i \in DOMAIN delivery_log' /\ delivery_log'[i] = delivery_log[i]]_vars

\* A deliver call returned its two attempts while the other session is in
\* the middle of its own wave for the same notification.
C26_Witness ==
    /\ Fanned
    /\ Len(result.ret) = 2
    /\ \E q \in Sessions :
        /\ session[q].pc = "create_delivery_log"
        /\ session[q].notification_id = result.notification_id
        /\ Len(session[q].logs) = 1
        /\ Cardinality(session[q].channels) = 2

\* C27: a deliver call abandoned after it created attempts for some of the
\* channels of its snapshot leaves exactly those attempts in the table,
\* pending with attempt_count 0: the abandonment itself changes no record.
C27_AbandonKeepsCreated ==
    /\ [](result.op = "abandon" =>
            /\ Len(result.ret) < Cardinality(result.channels)
            /\ Cardinality(ChannelsOf(result.ret)) = Len(result.ret)
            /\ ChannelsOf(result.ret) \subseteq result.channels
            /\ \A k \in DOMAIN result.ret :
                /\ result.ret[k] \in DOMAIN delivery_log
                /\ result.ret[k] \notin DOMAIN result.before.delivery_log
                /\ delivery_log[result.ret[k]].notification_id = result.notification_id
                /\ delivery_log[result.ret[k]].status = "pending"
                /\ delivery_log[result.ret[k]].attempt_count = 0)
    /\ [][(\E p \in Sessions : abandon(p)) => UNCHANGED store]_vars

\* A deliver call over two channels, abandoned after its first attempt.
C27_Witness ==
    /\ result.op = "abandon"
    /\ Cardinality(result.channels) = 2
    /\ Len(result.ret) = 1
    /\ delivery_log[result.ret[1]].status = "pending"

\* ---- the columns fixed at creation --------------------------------------

\* C31: the id, notification_id, channel_id and max_attempts of an attempt
\* are fixed at creation: no step of deliver, retry_delivery, the sweep,
\* get_status or the transport's report changes them, in one session or in
\* two interleaved ones.
C31_IdentityFixed ==
    [][\A i \in DOMAIN delivery_log :
          /\ i \in DOMAIN delivery_log'
          /\ delivery_log'[i].id = delivery_log[i].id
          /\ delivery_log'[i].notification_id = delivery_log[i].notification_id
          /\ delivery_log'[i].channel_id = delivery_log[i].channel_id
          /\ delivery_log'[i].max_attempts = delivery_log[i].max_attempts]_vars

\* An attempt that was retried twice and then reported failed with an error
\* message still has the identity it was created with.
C31_Witness ==
    /\ result.op = "update_delivery_log_status"
    /\ result.ret # None
    /\ result.ret.status = "failed"
    /\ result.ret.error_message # NoText
    /\ result.ret.attempt_count = 2
    /\ result.ret.max_attempts = MAX_ATTEMPTS
    /\ result.ret.id = result.log_id

\* ---- attempts are kept ----------------------------------------------------

\* C32: attempts are never deleted or dropped: an attempt that is in the
\* table stays in it at every step, so the set of attempt ids only grows,
\* and every summary of a notification lists every attempt of it that the
\* table holds, whatever its status and however often it was retried.
C32_AttemptsKept ==
    /\ [][DOMAIN delivery_log \subseteq DOMAIN delivery_log']_vars
    /\ [](\A n \in notifications :
             Summarized(n) =>
                 {result.ret.deliveries[k].log_id : k \in DOMAIN result.ret.deliveries}
                     = AttemptsIn(delivery_log, n))

\* A summary that lists two attempts, one delivered after a retry and one
\* that was retried until its count reached max_attempts.
C32_Witness ==
    /\ Summarized(1)
    /\ Len(result.ret.deliveries) = 2
    /\ \E i, j \in DOMAIN delivery_log :
           /\ delivery_log[i].status = "sent"
           /\ delivery_log[i].attempt_count >= 1
           /\ delivery_log[j].attempt_count = delivery_log[j].max_attempts

\* ---- the two timestamps --------------------------------------------------

\* C33: for every attempt, in every state of the table, last_attempt_at and
\* next_retry_at are None exactly as long as attempt_count = 0, whatever the
\* transport reported, and both are set once the attempt was retried.
C33_TimestampsWithCount ==
    \A i \in DOMAIN delivery_log :
        /\ delivery_log[i].attempt_count = 0 <=> delivery_log[i].last_attempt_at = NoTime
        /\ delivery_log[i].attempt_count = 0 <=> delivery_log[i].next_retry_at = NoTime

\* ---- the sweep terminates ------------------------------------------------

\* Attempt i has status failed and no attempt left, and no retry_delivery
\* is at work on it.
Terminal(i) ==
    /\ i \in DOMAIN delivery_log
    /\ \A p \in scope.sessions : session[p].log_id # i
    /\ delivery_log[i].status = "failed"
    /\ delivery_log[i].attempt_count = delivery_log[i].max_attempts

\* C34: if the transport reports failed after every retry and the sweep keeps
\* running, every attempt eventually has status failed and attempt_count =
\* max_attempts and then never changes again; its count goes up one by one
\* and never above max_attempts, so it is retried max_attempts times at most.
C34_SweepTerminates ==
    /\ \A i \in 1..MaxLogs : (i \in DOMAIN delivery_log) ~> [](Terminal(i))
    /\ [][\A i \in DOMAIN delivery_log :
            /\ Terminal(i) => delivery_log'[i] = delivery_log[i]
            /\ delivery_log'[i].attempt_count \in
                   {delivery_log[i].attempt_count, delivery_log[i].attempt_count + 1}
            /\ delivery_log'[i].attempt_count <= delivery_log[i].max_attempts]_vars

\* Every attempt is failed with its count at max_attempts, and a sweep that
\* ran after that found nothing to retry.
C34_Witness ==
    /\ Len(delivery_log) = MaxLogs
    /\ \A i \in DOMAIN delivery_log : Terminal(i)
    /\ result.op = "process_pending_retries"
    /\ result.pending = {}

\* ---- the detail list of the summary --------------------------------------

\* The error message an entry of the detail list shows: DeliveryLogResponse
\* reads a key the entry does not have as None.
ErrorShown(entry) ==
    IF "error_message" \in DOMAIN entry THEN entry.error_message ELSE NoText

\* C35: the detail list of get_status(n) has exactly one entry per attempt
\* of n, and each entry reports the attempt's channel type, status,
\* attempt_count, max_attempts and last recorded error message: an attempt
\* that failed with an error message shows that message in its entry.
C35_DetailReportsError ==
    \A n \in notifications :
        Summarized(n) =>
            LET deliveries == result.ret.deliveries IN
            /\ {deliveries[k].log_id : k \in DOMAIN deliveries} = AttemptsIn(delivery_log, n)
            /\ Len(deliveries) = Cardinality(AttemptsIn(delivery_log, n))
            /\ \A k \in DOMAIN deliveries :
                   LET row == delivery_log[deliveries[k].log_id] IN
                   /\ deliveries[k].channel_type =
                          delivery_channels[row.channel_id].channel_type
                   /\ deliveries[k].status = row.status
                   /\ deliveries[k].attempt_count = row.attempt_count
                   /\ deliveries[k].max_attempts = row.max_attempts
                   /\ ErrorShown(deliveries[k]) = row.error_message

\* ---- the frame of the transport's report ---------------------------------

\* C36: update_delivery_log_status(id, status, error_message) on an existing
\* attempt sets its status, and its error_message when one is given (None
\* keeps the message recorded before); its attempt_count, max_attempts,
\* last_attempt_at and next_retry_at, its identity, every other attempt, the
\* notifications and the channels stay as they were, and the call returns
\* the row; on an unknown id it returns None and changes nothing.
C36_ReportFrame ==
    [][\A p \in scope.sessions, id \in 1..scope.max_logs, status \in scope.statuses,
          error_message \in scope.errors \cup {NoText} :
          update_delivery_log_status(p, id, status, error_message) =>
              /\ UNCHANGED <<notifications, delivery_channels>>
              /\ DOMAIN delivery_log' = DOMAIN delivery_log
              /\ \A i \in DOMAIN delivery_log \ {id} : delivery_log'[i] = delivery_log[i]
              /\ IF id \in DOMAIN delivery_log
                 THEN LET old == delivery_log[id]
                          new == delivery_log'[id]
                      IN /\ new.status = status
                         /\ new.error_message =
                                IF error_message = NoText THEN old.error_message
                                ELSE error_message
                         /\ new.attempt_count = old.attempt_count
                         /\ new.max_attempts = old.max_attempts
                         /\ new.last_attempt_at = old.last_attempt_at
                         /\ new.next_retry_at = old.next_retry_at
                         /\ new.id = old.id
                         /\ new.notification_id = old.notification_id
                         /\ new.channel_id = old.channel_id
                         /\ result'.ret = new
                 ELSE result'.ret = None]_vars

\* A report without a message on a retried attempt that failed with a
\* message before: the row returned is sent, keeps the message, the count and
\* both timestamps.
C36_Witness ==
    /\ result.op = "update_delivery_log_status"
    /\ result.log_id \in DOMAIN result.before.delivery_log
    /\ result.before.delivery_log[result.log_id].status = "retried"
    /\ result.before.delivery_log[result.log_id].error_message # NoText
    /\ result.ret.status = "sent"
    /\ result.ret.error_message = result.before.delivery_log[result.log_id].error_message
    /\ result.ret.attempt_count = 1
    /\ result.ret.last_attempt_at # NoTime
    /\ result.ret.next_retry_at # NoTime

\* ---- the counts of the summary add up ------------------------------------

\* C37: in every summary get_status returns, total_channels = delivered +
\* failed + pending, and total_channels is the length of the detail list.
C37_CountsAddUp ==
    \A n \in notifications :
        Summarized(n) =>
            /\ result.ret.total_channels =
                   result.ret.delivered + result.ret.failed + result.ret.pending
            /\ result.ret.total_channels = Len(result.ret.deliveries)

\* A summary over three attempts, one pending, one retried and one failed.
C37_Witness ==
    /\ Summarized(1)
    /\ {result.ret.deliveries[k].status : k \in DOMAIN result.ret.deliveries}
           = {"pending", "retried", "failed"}
    /\ result.ret.total_channels = 3
    /\ result.ret.pending = 2
    /\ result.ret.failed = 1

\* ---- the frame of deliver, retry_delivery and the sweep -------------------

\* A step of deliver, of retry_delivery or of process_pending_retries that
\* does not write to the table.
ReadsOnly ==
    \/ \E p \in scope.sessions, n \in 1..scope.max_notifications :
           deliver(p, n) \/ trigger_delivery(p, n)
    \/ \E p \in scope.sessions, id \in 1..scope.max_logs : retry_delivery(p, id)
    \/ \E p \in scope.sessions :
           \/ refresh_increment(p)
           \/ refresh(p)
           \/ process_pending_retries(p)
           \/ next_pending(p)

\* C38: deliver, retry_delivery and process_pending_retries never modify a
\* notification or a channel; deliver never modifies an attempt that exists
\* already; a retry_delivery that goes through writes to the attempt it
\* names only, and leaves that attempt's error_message (and its identity and
\* max_attempts) as it was.
C38_HandlersFrame ==
    [][/\ ReadsOnly => UNCHANGED store
       /\ \A p \in scope.sessions :
             create_delivery_log(p) =>
                 /\ UNCHANGED <<notifications, delivery_channels>>
                 /\ \A i \in DOMAIN delivery_log : delivery_log'[i] = delivery_log[i]
       /\ \A p \in scope.sessions :
             increment_delivery_attempt(p) \/ backoff(p) =>
                 LET id == session[p].log_id IN
                 /\ UNCHANGED <<notifications, delivery_channels>>
                 /\ DOMAIN delivery_log' = DOMAIN delivery_log
                 /\ \A i \in DOMAIN delivery_log \ {id} :
                        delivery_log'[i] = delivery_log[i]
                 /\ delivery_log'[id].error_message = delivery_log[id].error_message
                 /\ delivery_log'[id].id = delivery_log[id].id
                 /\ delivery_log'[id].notification_id = delivery_log[id].notification_id
                 /\ delivery_log'[id].channel_id = delivery_log[id].channel_id
                 /\ delivery_log'[id].max_attempts = delivery_log[id].max_attempts]_vars

\* A retry_delivery that went through on an attempt that had failed with an
\* error message: the row it returns is retried and still has the message.
C38_Witness ==
    /\ result.op = "retry_delivery"
    /\ result.ret # None
    /\ result.ret.status = "retried"
    /\ result.ret.attempt_count = 2
    /\ result.ret.error_message # NoText

====
